---------------------------- MODULE Spec2Model ----------------------------
(***************************************************************************)
(* Model of the tracking window of interceptor (gui/tracker.py): the       *)
(* registry of runs (TrackerWindow.track_panels), each run's record store  *)
(* and pending buffer (TrackerPanel.all_data, new_data) and each run's     *)
(* chart window (TrackChart).  One action per event handler, and one per   *)
(* part of a handler that dispatches pending events before it is done.     *)
(*                                                                         *)
(* Conventions                                                             *)
(*  - x_min and x_max hold TWICE the value the chart holds, so that the    *)
(*    half-frame positions a scroll or a span selection produces stay      *)
(*    integers; frame f lies inside the window iff x_min < 2*f < x_max.    *)
(*    The same holds for the xmin, xmax inputs of onSelect.                *)
(*  - numpy is the numpy of the program's Python 3.6 environment: for an   *)
(*    array a, (a != []) is an empty array (false) when a has one element  *)
(*    and True when it has two or more.                                    *)
(*  - A NaN is unequal to every float, itself included, and a tuple that   *)
(*    holds one is found in a list only when the list holds the very same  *)
(*    float object.  The NaN objects are therefore told apart: NaN is the  *)
(*    np.nan object, NaNb a NaN float made anew.  The producer is not part *)
(*    of tracker.py and may hand over either.                              *)
(*  - TrackerPanel has no attribute chart_window (its zoom control is      *)
(*    chart_zoom): a handler that reads it ends there with AttributeError  *)
(*    and keeps what it has assigned before.  toggle and ctr are the       *)
(*    toggle button and the spin control of chart_zoom.                    *)
(***************************************************************************)
EXTENDS Integers, Sequences, FiniteSets, TLC

\* the registry of runs, the selected panel, the pages of panels the registry
\* has dropped, the panel whose update is between draw and merge, the run
\* whose panel is under construction, the events the user has sent to the
\* charts and their controls
VARIABLES track_panels, tracker_panel, unregistered, in_flight, creating,
          clicks

vars == <<track_panels, tracker_panel, unregistered, in_flight, creating,
          clicks>>

---------------------------------------------------------------------------
(* Bounds of the model *)

\* run numbers are 1..MaxRun
MaxRun == 2
\* frame indices are 0, 4, .., 4*MaxFrame
MaxFrame == 2
\* spot counts are 10, 15, .., 5 + 5*MaxSpotK
MaxSpotK == 2
\* records in one batch
MaxBatch == 2
\* records the panels hold together (stores plus pending buffers) before the
\* producer stops
MaxData == 2
\* pages the notebook holds: one for every panel created
MaxPages == 2
\* thresholds the user can set are 10, 20, .., 10*MaxBraggK
MaxBraggK == 2
\* span selections start (doubled) in -MaxSelBelow..MaxSelMin and end in
\* MinSelMax..MaxSel
MaxSelBelow == 1
MaxSelMin == 1
MaxSel == 10
\* scrollbar positions are 0..MaxPos
MaxPos == 3
\* events the user sends to the charts and their controls (span selections,
\* scrolls, clicks, threshold settings) before leaving them alone
MaxClicks == 2
---------------------------------------------------------------------------
(* Values *)

\* the value of "not indexed" (np.nan); indexed values proper are >= 0
NaN == -1
\* another NaN float object
NaNb == -2
NaNs == {NaN, NaNb}
isnan(v) == v \in NaNs
\* Python's None: chart_range before any zoom, the labels before any text
None == -9
\* tracker_panel before the first run is created (the attribute is not set)
NoPanel == 0

RunNos == 1..MaxRun
\* the run whose records vary; the other runs receive one kind of record
MainRun == CHOOSE r \in RunNos : \A q \in RunNos : r <= q
FrameVals == {4 * k : k \in 0..MaxFrame}
\* the spots the producer finds on frame f: the most on the last frame, the
\* fewest on the others
SpotsAt(f) == IF f = 4 * MaxFrame THEN {5 + 5 * MaxSpotK} ELSE {10}
IndexedVals == NaNs \cup {0}
\* the producer indexes the frames with 15 spots or more; the NaN of an
\* unindexed first frame is either object, the NaN of a later one np.nan
Indexed(frame_idx, n_spots) ==
  IF n_spots >= 15 THEN {0} ELSE IF frame_idx = 0 THEN NaNs ELSE {NaN}
MinSelMax == MaxSel - 1
SelMins == (0 - MaxSelBelow)..MaxSelMin
SelMaxs == MinSelMax..MaxSel
ResVals == {2}
BraggVals == {10 * k : k \in 1..MaxBraggK}
\* one entry of info_list; missing names the key the dictionary lacks, ""
\* when it has them all
Info(r, f, s, i, h) ==
  [run_no |-> r, frame_idx |-> f, n_spots |-> s, indexed |-> i,
   hres |-> h, missing |-> ""]
WellFormedInfos ==
  UNION {UNION {{Info(MainRun, f, s, i, h) :
                    i \in Indexed(f, s), h \in ResVals} : s \in SpotsAt(f)} :
           f \in FrameVals}
    \cup {Info(r, 1, 10, NaN, 2) : r \in RunNos \ {MainRun}}
\* the keys an entry is read by, in the order the handler reads them
Keys == <<"run_no", "frame_idx", "n_spots", "indexed", "hres">>
\* entries that lack the first or the last key read
MalformedInfos ==
  {[Info(MainRun, 0, 10, NaN, 2) EXCEPT !.missing = k] : k \in {Keys[1], Keys[5]}}
Infos == WellFormedInfos
InfoLists == UNION {[1..n -> Infos] : n \in 0..MaxBatch}
\* the batches with a malformed entry
MalformedLists ==
  {l \in UNION {[1..n -> Infos \cup MalformedInfos] : n \in 1..MaxBatch} :
     \E k \in 1..Len(l) : l[k] \in MalformedInfos}

---------------------------------------------------------------------------
(* Helpers: numpy and list operations *)

RECURSIVE np_max(_)
np_max(s) ==
  IF Len(s) = 1 THEN s[1]
  ELSE LET m == np_max(Tail(s)) IN IF s[1] > m THEN s[1] ELSE m

\* s with every element in sorted position (np.sort, inside np.median)
RECURSIVE np_sort(_)
np_sort(s) ==
  IF s = <<>> THEN <<>>
  ELSE LET m == np_max(s)
           i == CHOOSE j \in 1..Len(s) : s[j] = m
           rest == [k \in 1..(Len(s) - 1) |-> IF k < i THEN s[k] ELSE s[k + 1]]
       IN np_sort(rest) \o <<m>>

\* twice np.median(s): the middle value twice, or the sum of the two middle ones
np_median2(s) ==
  LET t == np_sort(s)
      n == Len(s)
  IN IF n % 2 = 1 THEN 2 * t[(n + 1) \div 2] ELSE t[n \div 2] + t[n \div 2 + 1]

\* (a != []) of an array or list a with Len(a) elements, as truth value
not_empty_list(a) == Len(a) >= 2

\* x in lst
In(x, lst) == \E k \in 1..Len(lst) : lst[k] = x

\* column k of a list of tuples (zip(*new_data))
Column(data, k) == [j \in 1..Len(data) |-> data[j][k]]

\* len(nref_i[~np.isnan(nref_i)])
count_not_nan(s) == Cardinality({k \in 1..Len(s) : ~isnan(s[k])})

---------------------------------------------------------------------------
(* TrackerPanel.__init__ with its TrackChart (reset_chart) *)

TrackerPanel(run_number) ==
  [ run_number |-> run_number,
    all_data |-> <<>>, new_data |-> <<>>,
    min_bragg |-> 10,
    toggle |-> FALSE, ctr |-> 100,
    count_txt |-> None, idx_count_txt |-> None, res_txt |-> None,
    \* TrackChart
    xdata |-> <<>>, ydata |-> <<>>, idata |-> <<>>, rdata |-> <<>>,
    x_min |-> 0, x_max |-> 2, y_max |-> 1,
    plot_zoom |-> FALSE, chart_range |-> None, max_lock |-> TRUE,
    acc |-> <<>>, rej |-> <<>>,
    acc_plot |-> <<>>, rej_plot |-> <<>>, idx_plot |-> <<>>,
    sb_shown |-> FALSE, sb_thumb |-> 0, sb_range |-> 0 ]

\* TrackChart.reset_chart: the chart's data and window, not the scrollbar
reset_chart(p) ==
  [p EXCEPT !.xdata = <<>>, !.ydata = <<>>, !.idata = <<>>, !.rdata = <<>>,
            !.x_min = 0, !.x_max = 2, !.y_max = 1,
            !.plot_zoom = FALSE, !.chart_range = None, !.max_lock = TRUE,
            !.acc_plot = <<>>, !.rej_plot = <<>>, !.idx_plot = <<>>]

---------------------------------------------------------------------------
(* TrackChart.draw_plot, called on panel p (the selected panel, whose       *)
(* min_bragg control it reads) with the records to append                   *)

\* the plotted data boundaries (x_min, x_max) when there is data
data_bounds(p, nref_x) ==
  IF p.plot_zoom
  THEN IF p.max_lock
       THEN <<2 * np_max(nref_x) - 2 * p.chart_range, 2 * np_max(nref_x)>>
       ELSE <<p.x_min, p.x_max>>
  ELSE <<0, 2 * (np_max(nref_x) + 1)>>

\* the y bound when there is data; int(0.1 * v) is v \div 10 for v >= 0
data_y_max(min_bragg, nref_y) ==
  IF min_bragg > np_max(nref_y)
  THEN min_bragg + (min_bragg \div 10)
  ELSE np_max(nref_y) + (np_max(nref_y) \div 10)

\* a test that leaves the points at the cutoff out of acc
is_acc_above(i, x_min, x_max, min_bragg) ==
  x_min < 2 * i[1] /\ 2 * i[1] < x_max /\ i[2] > min_bragg

\* the tests of the acc and rej lists on a point i = (frame, spots)
is_acc(i, x_min, x_max, min_bragg) ==
  x_min < 2 * i[1] /\ 2 * i[1] < x_max /\ i[2] >= min_bragg

is_rej(i, x_min, x_max, min_bragg) ==
  x_min < 2 * i[1] /\ 2 * i[1] < x_max /\ i[2] <= min_bragg

draw_plot(p, new_data) ==
  LET min_bragg == p.min_bragg
      has_new == new_data # <<>>
      \* append new data (if available) to data lists
      nref_x == IF has_new THEN p.xdata \o Column(new_data, 1) ELSE p.xdata
      nref_y == IF has_new THEN p.ydata \o Column(new_data, 2) ELSE p.ydata
      nref_i == IF has_new THEN p.idata \o Column(new_data, 3) ELSE p.idata
      rdata == IF has_new THEN p.rdata \o Column(new_data, 4) ELSE p.rdata
      nref_xy == [k \in 1..Len(nref_x) |-> <<nref_x[k], nref_y[k]>>]
      \* identify plotted data boundaries
      has_data == not_empty_list(nref_x) /\ not_empty_list(nref_y)
      x_min == IF has_data THEN data_bounds(p, nref_x)[1] ELSE -2
      x_max == IF has_data THEN data_bounds(p, nref_x)[2] ELSE 2
      y_max == IF has_data THEN data_y_max(min_bragg, nref_y) ELSE p.y_max
      \* results within the plotted boundaries, above (acc) or below (rej)
      \* the cutoff
      acc == SelectSeq(nref_xy, LAMBDA i : is_acc(i, x_min, x_max, min_bragg))
      rej == SelectSeq(nref_xy, LAMBDA i : is_rej(i, x_min, x_max, min_bragg))
      p1 == [p EXCEPT !.xdata = nref_x, !.ydata = nref_y, !.idata = nref_i,
                      !.rdata = rdata,
                      !.x_min = x_min, !.x_max = x_max, !.y_max = y_max,
                      !.acc = acc, !.rej = rej]
      \* adjust scrollbar: range and thumb size; the thumb position it sets
      \* is replaced by the position the next scroll event brings
      adjust == p.chart_range # None /\ p.chart_range # 0
      rng == np_max(nref_x)
  IN IF acc = <<>> /\ rej = <<>>
     THEN p1    \* exit if there's nothing to plot
     ELSE [p1 EXCEPT
             !.acc_plot = IF acc # <<>> THEN acc ELSE @,
             !.rej_plot = IF rej # <<>> THEN rej ELSE @,
             !.idx_plot = IF has_new THEN <<nref_x, nref_i>> ELSE @,
             !.count_txt = Len(acc),
             !.idx_count_txt = count_not_nan(nref_i),
             !.res_txt = np_median2(rdata),
             !.sb_thumb = IF adjust THEN p.chart_range ELSE @,
             !.sb_range = IF adjust THEN rng ELSE @]

---------------------------------------------------------------------------
(* TrackerPanel *)

\* the two halves of update_plot(reset=False): the draw of the pending
\* records, and their merge into the store
update_plot_draw(p) == draw_plot(p, p.new_data)

update_plot_merge(p) ==
  [p EXCEPT !.all_data = p.all_data \o p.new_data, !.new_data = <<>>]

\* the draw that left p reached _update_canvas, where canvas.flush_events() dispatches
\* the events that are pending; a draw with nothing to plot returns before
reaches_canvas(p) == p.acc # <<>> \/ p.rej # <<>>

update_plot(p, reset) ==
  LET p0 == IF reset THEN draw_plot(reset_chart(p), p.all_data) ELSE p
      p1 == draw_plot(p0, p0.new_data)
  IN [p1 EXCEPT !.all_data = p1.all_data \o p1.new_data, !.new_data = <<>>]

update_data(p, new_data) ==
  LET fresh == SelectSeq(new_data, LAMBDA i : ~In(i, p.all_data))
  IN [p EXCEPT !.new_data = p.new_data \o fresh]

---------------------------------------------------------------------------
(* TrackChart event handlers, on the panel p that owns the chart *)

\* int(x) of x given doubled: the fraction is cut off, towards zero
int2(x2) == IF x2 >= 0 THEN x2 \div 2 ELSE -((-x2) \div 2)

\* a span of 5 frames or more ends in AttributeError: chart_window is read
\* after the window has been assigned
onSelect_raises(p, xmin, xmax) == int2(xmax) - int2(xmin) >= 5

\* a selection that zooms on the span whatever its width
onSelect_any_span(p, xmin, xmax) ==
  [p EXCEPT !.x_min = 2 * int2(xmin), !.x_max = 2 * int2(xmax),
            !.plot_zoom = TRUE, !.max_lock = FALSE,
            !.chart_range = int2(xmax) - int2(xmin)]

\* the window is assigned; the handler ends at the read of chart_window,
\* before the scrollbar is set and shown and before the draw
onSelect(p, xmin, xmax) ==
  IF int2(xmax) - int2(xmin) >= 5
  THEN [p EXCEPT !.x_min = 2 * int2(xmin), !.x_max = 2 * int2(xmax),
                 !.plot_zoom = TRUE, !.max_lock = FALSE,
                 !.chart_range = int2(xmax) - int2(xmin)]
  ELSE p

\* the window a scroll to position pos sets, before the lock and the draw
scroll_bounds(p, pos) ==
  LET sb_center == pos
      \* half_span = (x_max - x_min) / 2, doubled
      half_span == (p.x_max - p.x_min) \div 2
  IN IF 2 * sb_center - half_span = 0
     THEN [p EXCEPT !.x_min = 0, !.x_max = half_span * 2]
     ELSE [p EXCEPT !.x_min = 2 * sb_center - half_span,
                    !.x_max = 2 * sb_center + half_span]

\* the thumb has been moved to position pos
onScroll(p, pos) ==
  LET p1 == scroll_bounds(p, pos)
      p2 == [p1 EXCEPT !.max_lock = (pos >= p.sb_range - p.sb_thumb)]
  IN draw_plot(p2, <<>>)

onPress(p, button) ==
  IF button # 1
  THEN draw_plot([p EXCEPT !.plot_zoom = FALSE, !.sb_shown = FALSE], <<>>)
  ELSE p

draw_bragg_line(p) == draw_plot(p, <<>>)

---------------------------------------------------------------------------
(* TrackerWindow.  w is the window: track_panels is the registry of runs,  *)
(* unregistered the pages of the notebook whose panel the registry has     *)
(* dropped, tracker_panel the selected panel: the run number of a          *)
(* registered panel, -k for the k-th unregistered one.                     *)

PanelIds(w) ==
  DOMAIN w.track_panels \cup {-k : k \in 1..Len(w.unregistered)}

panel(w, id) == IF id > 0 THEN w.track_panels[id] ELSE w.unregistered[-id]

with_panel(w, id, p) ==
  IF id > 0
  THEN [w EXCEPT !.track_panels[id] = p]
  ELSE [w EXCEPT !.unregistered[-id] = p]

\* the run number create_new_run takes when it is given none
next_run_no(w) ==
  IF DOMAIN w.track_panels = {} THEN 1
  ELSE 1 + (CHOOSE r \in DOMAIN w.track_panels :
              \A q \in DOMAIN w.track_panels : q <= r)

\* create_new_run from the return of TrackerPanel(...) on: the panel is
\* selected, registered under run_no in place of the panel the registry may
\* hold by then, whose page stays in the notebook, and shown; the bindings
\* that follow read chart_window and end create_new_run in AttributeError.
\* AddPage with select=True dispatches the page change in between: its
\* handler assigns tracker_panel the page just added, which it already is,
\* and ends in the same AttributeError
create_new_run(w, run_no) ==
  [w EXCEPT !.track_panels = (run_no :> TrackerPanel(run_no)) @@ w.track_panels,
            !.unregistered = IF run_no \in DOMAIN w.track_panels
                             THEN Append(@, w.track_panels[run_no])
                             ELSE @,
            !.tracker_panel = run_no]

create_new_run_raises(w, run_no) == TRUE

\* the for loop over info_list up to its end or to the statement that
\* leaves it: raised when a key is missing (KeyError: info['run_no'] is read
\* first, the other keys after the run has been looked up), creating the
\* run number when the registry does not hold the run of an entry and
\* create_new_run is called
RECURSIVE collect(_, _)
collect(st, info_list) ==
  IF info_list = <<>> THEN st
  ELSE IF Head(info_list).missing = Keys[1] THEN [st EXCEPT !.raised = TRUE]
  ELSE IF Head(info_list).run_no \notin DOMAIN st.track_panels
       THEN [st EXCEPT !.creating = Head(info_list).run_no,
                       !.raised = create_new_run_raises(st, Head(info_list).run_no)]
  ELSE IF Head(info_list).missing # "" THEN [st EXCEPT !.raised = TRUE]
  ELSE LET info == Head(info_list)
           run_no == info.run_no
           tuple == <<info.frame_idx, info.n_spots, info.indexed, info.hres>>
           dict == st.new_data_dict
           dict1 == IF run_no \in DOMAIN dict
                    THEN [dict EXCEPT ![run_no] = Append(@, tuple)]
                    ELSE (run_no :> <<tuple>>) @@ dict
       IN collect([st EXCEPT !.new_data_dict = dict1], Tail(info_list))

\* the batch routed into new_data_dict
collected(w, info_list) ==
  collect([track_panels |-> w.track_panels, new_data_dict |-> <<>>,
           raised |-> FALSE, creating |-> NoPanel], info_list)

\* the loop has raised, or self.tracker_panel does not exist (no run has
\* been created) and the final update_plot raises AttributeError
onCollectorInfo_raises(w, info_list) ==
  \/ collected(w, info_list).raised
  \/ w.tracker_panel = NoPanel

\* the loop over new_data_dict: update_data on every run of the batch
routed(w, info_list) ==
  LET dict == collected(w, info_list).new_data_dict
  IN [w EXCEPT !.track_panels =
        [run_no \in DOMAIN w.track_panels |->
           IF run_no \in DOMAIN dict
           THEN update_data(w.track_panels[run_no], dict[run_no])
           ELSE w.track_panels[run_no]]]

\* onCollectorInfo up to the draw of the selected panel, of a batch the
\* loop has not raised on: the batch has been routed and the pending
\* records of the selected panel drawn, not yet merged
onCollectorInfo_draw(w, info_list) ==
  LET w1 == routed(w, info_list)
  IN with_panel(w1, w.tracker_panel, update_plot_draw(panel(w1, w.tracker_panel)))

\* onCollectorInfo with no event dispatched inside it
onCollectorInfo(w, info_list) ==
  LET st == collected(w, info_list)
      w1 == routed(w, info_list)
  IN IF st.creating # NoPanel
     THEN \* the handler is left where create_new_run raises
          create_new_run(w, st.creating)
     ELSE IF st.raised \/ w.tracker_panel = NoPanel
     THEN w
     ELSE \* update current plot
          with_panel(w1, w.tracker_panel,
                     update_plot(panel(w1, w.tracker_panel), FALSE))

\* the first statement reads chart_window: the handler ends in
\* AttributeError with nothing assigned and nothing drawn
onChartRange(p) == p

onChartRange_raises(p) == TRUE

onMinBragg(p) == draw_bragg_line(p)

\* stop_run closes the socket of the collector and stops the timer; it
\* leaves the runs, their stores and their pending buffers as they are
stop_run(w) == w

\* the page shown (the panel id) is made the selected panel; the bindings
\* that follow read chart_window and end set_current_chart_panel in
\* AttributeError
set_current_chart_panel(w, id) == [w EXCEPT !.tracker_panel = id]

set_current_chart_panel_raises(w, id) == TRUE

\* the notebook shows the page of panel id: update_plot(reset=True) follows
\* set_current_chart_panel when that returns
onPageChange(w, id) ==
  LET w1 == set_current_chart_panel(w, id)
  IN IF set_current_chart_panel_raises(w, id)
     THEN w1
     ELSE with_panel(w1, id, update_plot(panel(w1, id), TRUE))

onPageChange_raises(w, id) == set_current_chart_panel_raises(w, id)

---------------------------------------------------------------------------
(* The state machine.  A handler runs to its end in one step unless it      *)
(* reaches canvas.flush_events() (_update_canvas, called at the end of      *)
(* draw_plot and of reset_chart) with statements left to run: flush_events  *)
(* dispatches the events that are pending, so their handlers run inside.    *)
(* That is update_plot between its draw and its merge (in_flight is the     *)
(* panel) and create_new_run inside TrackerPanel(...), before the panel is  *)
(* selected and registered (creating is the run number).  A handler that    *)
(* runs inside runs to its end: its own flush_events raises the             *)
(* AssertionError of a recursive yield, which _update_canvas catches.       *)

window ==
  [track_panels |-> track_panels, tracker_panel |-> tracker_panel,
   unregistered |-> unregistered]

\* the selected panel (the page the notebook shows)
cur == panel(window, tracker_panel)

\* no handler is inside another
Idle == in_flight = NoPanel /\ creating = NoPanel

SetPanels(w) ==
  /\ track_panels' = w.track_panels
  /\ tracker_panel' = w.tracker_panel
  /\ unregistered' = w.unregistered

SetWindow(w) == SetPanels(w) /\ UNCHANGED <<in_flight, creating, clicks>>

\* an event of the user on the chart shown or its controls leaves panel p
SetCur(p) ==
  /\ clicks < MaxClicks
  /\ SetPanels(with_panel(window, tracker_panel, p))
  /\ clicks' = clicks + 1
  /\ UNCHANGED <<in_flight, creating>>

\* the records the panels hold, stores and pending buffers
RECURSIVE Sum(_, _)
Sum(f, S) ==
  IF S = {} THEN 0 ELSE LET x == CHOOSE y \in S : TRUE IN f[x] + Sum(f, S \ {x})

Held ==
  Sum([id \in PanelIds(window) |->
         Len(panel(window, id).all_data) + Len(panel(window, id).new_data)],
      PanelIds(window))

\* the pages of the notebook
Pages == Cardinality(PanelIds(window))

\* the pages the handlers that have started need: one for the run under
\* creation
PagesDue == Pages + (IF creating # NoPanel THEN 1 ELSE 0)

Init ==
  /\ track_panels = <<>>
  /\ tracker_panel = NoPanel
  /\ unregistered = <<>>
  /\ in_flight = NoPanel
  /\ creating = NoPanel
  /\ clicks = 0

\* the batch info_list, the panels holding not more than MaxData records
\* with it, is handled with no handler running, up to the end of the handler
\* or to the flush_events that leaves statements to run
onCollectorInfo_step(info_list) ==
  /\ Idle
  /\ Held + Len(info_list) <= MaxData
  /\ collected(window, info_list).creating # NoPanel => Pages < MaxPages
  /\ LET st == collected(window, info_list)
         w1 == onCollectorInfo_draw(window, info_list)
     IN IF st.creating # NoPanel
        THEN /\ creating' = st.creating
             /\ UNCHANGED <<track_panels, tracker_panel, unregistered,
                            in_flight, clicks>>
        ELSE IF onCollectorInfo_raises(window, info_list)
        THEN SetWindow(onCollectorInfo(window, info_list))
        ELSE IF reaches_canvas(panel(w1, tracker_panel))
        THEN /\ track_panels' = w1.track_panels
             /\ unregistered' = w1.unregistered
             /\ in_flight' = tracker_panel
             /\ UNCHANGED <<tracker_panel, creating, clicks>>
        ELSE SetWindow(onCollectorInfo(window, info_list))

\* the batch of a pending event is handled inside flush_events, to its end
onCollectorInfo_inside(info_list) ==
  /\ ~Idle
  /\ Held + Len(info_list) <= MaxData
  /\ collected(window, info_list).creating # NoPanel => PagesDue < MaxPages
  /\ SetWindow(onCollectorInfo(window, info_list))

\* the batches the producer delivers: records, a tick with nothing new, or a
\* batch with a malformed entry
Delivered == InfoLists \cup MalformedLists

\* a batch arrives
CollectorInfo ==
  \E info_list \in Delivered : onCollectorInfo_step(info_list)

CollectorInfoNested ==
  \E info_list \in Delivered : onCollectorInfo_inside(info_list)

\* flush_events returns and update_plot merges what the pending buffer holds
CollectorInfoMerge ==
  /\ in_flight # NoPanel
  /\ SetPanels(with_panel(window, in_flight,
                          update_plot_merge(panel(window, in_flight))))
  /\ in_flight' = NoPanel
  /\ UNCHANGED <<creating, clicks>>

\* TrackerPanel(...) returns and create_new_run goes on to its error, which
\* ends the handler of the batch
CollectorInfoCreate ==
  /\ creating # NoPanel
  /\ SetPanels(create_new_run(window, creating))
  /\ creating' = NoPanel
  /\ UNCHANGED <<in_flight, clicks>>

\* the user drags a span on the chart shown
Select ==
  /\ tracker_panel # NoPanel
  /\ \E xmin \in SelMins, xmax \in SelMaxs :
       SetCur(onSelect(cur, xmin, xmax))

\* the positions the thumb of the scrollbar of p can be moved to: the thumb
\* stays inside the range
ThumbPositions(p) ==
  {pos \in 0..MaxPos : pos = 0 \/ pos <= p.sb_range - p.sb_thumb}

\* a scroll event of the scrollbar of the chart shown, its thumb at pos
Scroll ==
  /\ tracker_panel # NoPanel
  /\ \E pos \in ThumbPositions(cur) : SetCur(onScroll(cur, pos))

\* the user clicks on the chart shown
Press ==
  /\ tracker_panel # NoPanel
  /\ \E button \in {1, 3} : SetCur(onPress(cur, button))

\* the user sets the Bragg spot cutoff of the panel shown
MinBragg ==
  /\ tracker_panel # NoPanel
  /\ \E v \in BraggVals \ {cur.min_bragg} :
       SetCur(onMinBragg([cur EXCEPT !.min_bragg = v]))

\* the user clicks on the tab of another page
PageChange ==
  \E id \in PanelIds(window) \ {tracker_panel} :
    SetWindow(onPageChange(window, id))

\* the user stops the run
Stop ==
  /\ SetPanels(stop_run(window))
  /\ UNCHANGED <<in_flight, creating, clicks>>

Next ==
  \/ CollectorInfo
  \/ CollectorInfoNested
  \/ CollectorInfoMerge
  \/ CollectorInfoCreate
  \/ Select
  \/ Scroll
  \/ Press
  \/ MinBragg
  \/ PageChange
  \/ Stop

Spec == Init /\ [][Next]_vars

---------------------------------------------------------------------------
(* Properties *)

Panels == DOMAIN track_panels

\* the pages of the notebook, and the panel of page id
Pgs == PanelIds(window)
pg(id) == panel(window, id)

\* the stores of window w, run by run
Stores(w) == [r \in DOMAIN w.track_panels |-> w.track_panels[r].all_data]

\* a batch the producer can deliver in the current state
Deliverable(info_list) == Held + Len(info_list) <= MaxData

NoRepeat(s) == \A i, j \in 1..Len(s) : s[i] = s[j] => i = j

IsPrefix(s, t) == Len(s) <= Len(t) /\ \A k \in 1..Len(s) : s[k] = t[k]

\* the window is ZoomedLocked, ZoomedFree, FullView
ZoomedLocked(p) == p.plot_zoom /\ p.max_lock
ZoomedFree(p) == p.plot_zoom /\ ~p.max_lock
FullView(p) == ~p.plot_zoom

\* a run is selected
HasPanel == tracker_panel # NoPanel

\* the five fields of the view window
ViewState(p) == <<p.x_min, p.x_max, p.plot_zoom, p.max_lock, p.chart_range>>

\* the history of a run as the chart holds it: the points (frame_idx,
\* spot_count) of its series (nref_xy)
History(p) == [k \in 1..Len(p.xdata) |-> <<p.xdata[k], p.ydata[k]>>]

\* point i lies inside the window, strictly
Visible(p, i) == p.x_min < 2 * i[1] /\ 2 * i[1] < p.x_max

\* the points of the history inside the window
VisibleHistory(p) == SelectSeq(History(p), LAMBDA i : Visible(p, i))

\* the y bound of threshold t and largest spot count m
YBound(t, m) == IF t > m THEN t + (t \div 10) ELSE m + (m \div 10)

\* the batches that are handled to the end in the current state
Handled ==
  {l \in InfoLists : Deliverable(l) /\ ~onCollectorInfo_raises(window, l)}

\* the selected panel after each event that recomputes its chart from the
\* current state: a change of the threshold, a cancel click, a batch or tick
Recomputed ==
  IF tracker_panel = NoPanel THEN {}
  ELSE {onMinBragg([cur EXCEPT !.min_bragg = v]) : v \in BraggVals}
         \cup {onPress(cur, 3)}
         \cup {panel(onCollectorInfo(window, l), tracker_panel) : l \in Handled}

\* C1: no run's store holds the same record tuple twice.
C1_NoTupleStoredTwice ==
  \A r \in Panels : NoRepeat(track_panels[r].all_data)

\* C2: delivering a batch a second time leaves every run's store as it was
\* after the first delivery: same records, same order.
C2_RedeliveryKeepsStores ==
  \A info_list \in InfoLists :
    Deliverable(info_list) =>
      LET w1 == onCollectorInfo(window, info_list)
          w2 == onCollectorInfo(w1, info_list)
      IN Stores(w2) = Stores(w1)

\* the largest frame_idx of the history of p (np.max(nref_x))
MaxFrameOf(p) == np_max(p.xdata)

\* the selected panel after a scroll to each position the thumb can take
Scrolled == {onScroll(cur, pos) : pos \in ThumbPositions(cur)}

\* x_max is the largest frame_idx of the history and x_min is chart_range less
LockedToLatest(p) ==
  /\ p.x_max = 2 * MaxFrameOf(p)
  /\ p.x_min = p.x_max - 2 * p.chart_range

\* C3: while a run's window is ZoomedLocked, after each recomputation x_max
\* is the largest frame_idx of the run's history and x_min is x_max -
\* chart_range: in every state, and after a scroll of a zoomed window, the
\* handler that locks it.
C3_LockInvariant ==
  /\ \A r \in Panels :
       LET p == track_panels[r] IN
         (ZoomedLocked(p) /\ p.all_data # <<>>) => LockedToLatest(p)
  /\ (HasPanel /\ cur.plot_zoom) =>
       \A q \in Scrolled :
         (ZoomedLocked(q) /\ q.all_data # <<>>) => LockedToLatest(q)

\* C4 as stated: a span selection narrower than 5 frames (xmax - xmin < 5,
\* doubled: < 10) leaves x_min, x_max, zoom_active, lock_to_latest and
\* chart_range unchanged.
C4_NarrowSpanNoOp ==
  HasPanel =>
    \A xmin \in SelMins, xmax \in SelMaxs :
      xmax - xmin < 10 =>
        ViewState(onSelect(cur, xmin, xmax)) = ViewState(cur)

\* C4 amended: a span selection whose ends, each cut to an integer, are less
\* than 5 apart (int(xmax) - int(xmin) < 5) changes nothing at all.
C4_TruncatedNarrowSpanNoOp ==
  HasPanel =>
    \A xmin \in SelMins, xmax \in SelMaxs :
      int2(xmax) - int2(xmin) < 5 => onSelect(cur, xmin, xmax) = cur

\* a zoomed window with data, on which the span -0.5 .. 4.5 is selected
C4_Witness ==
  /\ HasPanel
  /\ ZoomedFree(cur)
  /\ Len(cur.all_data) >= 2
  /\ int2(MinSelMax) - int2(0 - 1) < 5
  /\ onSelect(cur, 0 - 1, MinSelMax) = cur

\* the points a list holds
Points(s) == {s[k] : k \in 1..Len(s)}

\* acc and rej of p are the points of its history inside its window at or
\* above, and at or below, its threshold
Classified(p) ==
  LET t == p.min_bragg
      h == History(p)
  IN /\ Points(p.acc) = {i \in Points(h) : Visible(p, i) /\ i[2] >= t}
     /\ Points(p.rej) = {i \in Points(h) : Visible(p, i) /\ i[2] <= t}
     /\ \A k \in 1..Len(h) :
          Visible(p, h[k]) =>
            /\ In(h[k], p.acc) \/ In(h[k], p.rej)
            /\ (In(h[k], p.acc) /\ In(h[k], p.rej)) <=> (h[k][2] = t)

\* C5: after every recomputation acc is exactly the records of the history
\* (the records the chart holds) inside the window with spot count >= t, rej
\* exactly those inside the window with spot count <= t; a record inside the
\* window is in one of them, and in both iff its spot count is t.
C5_Classification == \A q \in Recomputed : Classified(q)

\* a recomputation has left a record at the threshold in both lists and one
\* above it in acc alone
C5_Witness ==
  \E r \in Panels :
    LET p == track_panels[r]
        h == History(p)
    IN /\ Classified(p)
       /\ p.all_data # <<>>
       /\ \E k \in 1..Len(h) : In(h[k], p.acc) /\ In(h[k], p.rej)
       /\ \E k \in 1..Len(h) : In(h[k], p.acc) /\ ~In(h[k], p.rej)

\* C6: a record with a run id the registry does not hold creates the run of
\* that id; a run the registry holds stays, under its id, with the records it
\* holds: it is never removed or replaced by a new one, so no page of the
\* notebook is left without its place in the registry.
C6_RunCreation ==
  [][ /\ unregistered' = unregistered
      /\ \A r \in DOMAIN track_panels :
           /\ r \in DOMAIN track_panels'
           /\ track_panels'[r].run_number = r
           /\ IsPrefix(track_panels[r].all_data \o track_panels[r].new_data,
                       track_panels'[r].all_data \o track_panels'[r].new_data)
      /\ \A r \in DOMAIN track_panels' : track_panels'[r].run_number = r
      /\ \A info \in Infos :
           Deliverable(<<info>>) =>
             DOMAIN onCollectorInfo(window, <<info>>).track_panels
               = DOMAIN track_panels \cup {info.run_no}
    ]_vars

\* C7: in FullView x_min = 0, and x_max is the largest frame_idx of the
\* store plus 1 when the store is not empty.
C7_FullViewInvariant ==
  \A r \in Panels :
    LET p == track_panels[r] IN
      FullView(p) =>
        /\ p.x_min = 0
        /\ p.all_data # <<>> => p.x_max = 2 * (np_max(Column(p.all_data, 1)) + 1)

\* C8: chart_range is null whenever zoom_active is false.
C8_RangeOnlyWhileZoomed ==
  \A r \in Panels :
    ~track_panels[r].plot_zoom => track_panels[r].chart_range = None

\* C9: with a record inside the window, y_max is the bound of the
\* threshold and the largest spot count among the records inside the window.
C9_YBoundOfVisible ==
  \A r \in Panels :
    LET p == track_panels[r]
        v == VisibleHistory(p)
    IN v # <<>> => p.y_max = YBound(p.min_bragg, np_max(Column(v, 2)))

\* C10: after the event is handled, with no handler running, no run has
\* records left in its pending buffer.
C10_AllBuffersDrained ==
  Idle => \A r \in Panels : track_panels[r].new_data = <<>>

\* the entries of info_list that have every key
WellFormed(info_list) == SelectSeq(info_list, LAMBDA info : info.missing = "")

\* C11: a batch with a malformed entry is handled as the batch without it:
\* the handler does not raise and every well-formed entry reaches its run.
C11_MalformedDroppedAlone ==
  \A info_list \in MalformedLists :
    Deliverable(info_list) =>
      /\ ~onCollectorInfo_raises(window, info_list)
      /\ onCollectorInfo(window, info_list)
           = onCollectorInfo(window, WellFormed(info_list))

\* C12: in every reachable state every event completes normally: a tick or
\* a well-formed batch, a span selection of any width, a switch to the tab
\* of any run, a change of the zoom toggle or range.
C12_NoOperationRaises ==
  /\ \A info_list \in InfoLists :
       Deliverable(info_list) => ~onCollectorInfo_raises(window, info_list)
  /\ \A r \in Panels : ~onPageChange_raises(window, r)
  /\ HasPanel =>
       /\ \A xmin \in SelMins, xmax \in SelMaxs :
            ~onSelect_raises(cur, xmin, xmax)
       /\ ~onChartRange_raises(cur)

\* the series of the chart of p are the columns of its store
SeriesMatchStore(p) ==
  /\ p.xdata = Column(p.all_data, 1)
  /\ p.ydata = Column(p.all_data, 2)
  /\ p.idata = Column(p.all_data, 3)
  /\ p.rdata = Column(p.all_data, 4)

\* C13: no handler runs between the draw of a run's pending buffer and its
\* merge into the store, and with no handler running the series of each
\* chart are the run's store, record by record: no record is drawn twice.
C13_HandlersSerialized ==
  /\ [][in_flight # NoPanel => in_flight' = NoPanel]_vars
  /\ [](in_flight = NoPanel => \A r \in Panels : SeriesMatchStore(track_panels[r]))

\* C14: the indexed count shown for the selected run is the number of
\* records of its whole history whose indexed field is not NaN, whatever the
\* window.
C14_IndexedCountOfHistory ==
  (HasPanel /\ cur.all_data # <<>>) => cur.idx_count_txt = count_not_nan(Column(cur.all_data, 3))

\* C15: a recomputation (here the one a threshold setting starts) that finds
\* no record of the history inside the window leaves an empty snapshot: no
\* accepted and no rejected points on the chart, a hit count of 0 (or the
\* empty label of a new run), and no new y bound.
C15_EmptyWindowEmptySnapshot ==
  HasPanel =>
    \A v \in BraggVals :
      LET d == onMinBragg([cur EXCEPT !.min_bragg = v]) IN
        VisibleHistory(d) = <<>> =>
          /\ d.acc_plot = <<>>
          /\ d.rej_plot = <<>>
          /\ d.count_txt \in {0, None}
          /\ d.y_max = cur.y_max

\* the record tuples of the entries of info_list for run r, in batch order
RecordsFor(info_list, r) ==
  LET mine == SelectSeq(info_list, LAMBDA info : info.run_no = r)
  IN [k \in 1..Len(mine) |->
        <<mine[k].frame_idx, mine[k].n_spots, mine[k].indexed, mine[k].hres>>]

\* what run r of window w holds, store first, pending buffer after it
HeldBy(w, r) ==
  IF r \in DOMAIN w.track_panels
  THEN w.track_panels[r].all_data \o w.track_panels[r].new_data
  ELSE <<>>

\* C16: a batch adds to what each run holds (store, then pending buffer) the
\* records of the batch for that run that the run's store does not hold, in
\* the order of the batch, behind the records held before; nothing is
\* resorted by frame_idx.
C16_RoutingOrder ==
  \A info_list \in InfoLists :
    Deliverable(info_list) =>
      LET w1 == onCollectorInfo(window, info_list) IN
        \A r \in RunNos :
          LET stored == IF r \in Panels THEN track_panels[r].all_data ELSE <<>>
              arrived == SelectSeq(RecordsFor(info_list, r),
                                   LAMBDA i : ~In(i, stored))
          IN HeldBy(w1, r) = HeldBy(window, r) \o arrived

\* C17: every step of every operation keeps every run, and the store of the
\* run before the step is a prefix of its store after the step.
C17_StoreAppendOnly ==
  [][\A r \in DOMAIN track_panels :
       /\ r \in DOMAIN track_panels'
       /\ IsPrefix(track_panels[r].all_data, track_panels'[r].all_data)]_vars

\* C18: a scroll to position c of a zoomed window with chart_range r sets
\* x_min = c - r/2 and x_max = c + r/2 before the lock is looked at (0 and r
\* when c - r/2 = 0, which is the same window).
C18_ScrollBounds ==
  (HasPanel /\ cur.plot_zoom /\ cur.all_data # <<>>) =>
    \A pos \in ThumbPositions(cur) :
      /\ scroll_bounds(cur, pos).x_min = 2 * pos - cur.chart_range
      /\ scroll_bounds(cur, pos).x_max = 2 * pos + cur.chart_range

\* C19: a scroll of a zoomed window locks it exactly when the position is at
\* or beyond the largest frame_idx less chart_range, and only a scroll takes
\* a window from ZoomedFree to ZoomedLocked.
C19_LockOnScrollOnly ==
  /\ []((HasPanel /\ cur.plot_zoom /\ cur.all_data # <<>>) =>
         \A pos \in ThumbPositions(cur) :
           onScroll(cur, pos).max_lock
             <=> (pos >= MaxFrameOf(cur) - cur.chart_range))
  /\ [][(HasPanel /\ ZoomedFree(cur) /\ tracker_panel' = tracker_panel
           /\ ZoomedLocked(cur'))
          => \E pos \in ThumbPositions(cur) : cur' = onScroll(cur, pos)]_vars

\* the panel of run r after a switch to its tab
Switched(r) == panel(onPageChange(window, r), r)

\* a new panel with the threshold of p that receives the store and the
\* pending records of p as one batch and draws them
FreshRun(p) ==
  update_plot(update_data([TrackerPanel(p.run_number)
                             EXCEPT !.min_bragg = p.min_bragg],
                          p.all_data \o p.new_data),
              FALSE)

\* the four data series of the chart of p
Series(p) == <<p.xdata, p.ydata, p.idata, p.rdata>>

\* the accepted and rejected points computed by the last draw of p
Classification(p) == <<p.acc, p.rej>>

\* the labels of p: hits, indexed, median resolution
Stats(p) == <<p.count_txt, p.idx_count_txt, p.res_txt>>

\* C20: after a switch to a run the series of its chart are its store
\* followed by its pending records, the classification and the stats are
\* those of a fresh run given the same records as one batch, and the series
\* are the ones the incremental ticks have reached on the selected run.
C20_TabSwitchRederives ==
  /\ \A r \in Panels \ {tracker_panel} :
       LET p == track_panels[r]
           q == Switched(r)
       IN /\ Series(q) = [k \in 1..4 |-> Column(p.all_data \o p.new_data, k)]
          /\ q.all_data = p.all_data \o p.new_data
          /\ Series(q) = Series(FreshRun(p))
          /\ Classification(q) = Classification(FreshRun(p))
          /\ Stats(q) = Stats(FreshRun(p))
  /\ HasPanel => SeriesMatchStore(cur)

\* C21: after a recomputation with zoom_active true and a non-empty
\* history the window is chart_range wide, x_max - x_min = chart_range.
C21_WindowWidth ==
  \A q \in Recomputed :
    (q.plot_zoom /\ q.all_data # <<>>) =>
      q.x_max - q.x_min = 2 * q.chart_range

\* the points of the history of p at its largest frame_idx
LatestPoints(p) ==
  {History(p)[k] : k \in {j \in 1..Len(p.xdata) :
                             p.xdata[j] = MaxFrameOf(p)}}

\* point i is among the accepted or the rejected of the last draw of p
Shown(p, i) == In(i, p.acc) \/ In(i, p.rej)

\* C22: while ZoomedLocked, after each recomputation no record at the
\* largest frame_idx of the history is among the accepted or the rejected.
C22_LatestFrameHidden ==
  (HasPanel /\ cur.plot_zoom) =>
    \A q \in Scrolled :
      (ZoomedLocked(q) /\ q.all_data # <<>>) =>
        \A i \in LatestPoints(q) : ~Shown(q, i)

\* C23: in FullView, after each recomputation every record of the history
\* with frame_idx >= 1 is among the accepted or the rejected, and no record
\* with frame_idx = 0 is.
C23_FullViewVisibility ==
  \A r \in Panels :
    LET p == track_panels[r] IN
      FullView(p) =>
        \A k \in 1..Len(History(p)) :
          Shown(p, History(p)[k]) <=> (History(p)[k][1] >= 1)

\* C24: while a window is ZoomedFree the arrival of records and a change of
\* the threshold leave x_min, x_max, chart_range, zoom_active and
\* lock_to_latest as they are, and a change of the threshold changes no
\* run's store or pending buffer.
C24_ZoomedFreeFrame ==
  /\ [](\A r \in Panels :
          ZoomedFree(track_panels[r]) =>
            /\ \A info_list \in InfoLists :
                 Deliverable(info_list) =>
                   ViewState(onCollectorInfo(window, info_list).track_panels[r])
                     = ViewState(track_panels[r])
            /\ r = tracker_panel =>
                 \A v \in BraggVals :
                   ViewState(onMinBragg([cur EXCEPT !.min_bragg = v]))
                     = ViewState(cur))
  /\ [][(\E r \in Panels :
            /\ r \in DOMAIN track_panels'
            /\ track_panels'[r].min_bragg # track_panels[r].min_bragg)
          => /\ DOMAIN track_panels' = Panels
             /\ \A r \in Panels :
                  /\ track_panels'[r].all_data = track_panels[r].all_data
                  /\ track_panels'[r].new_data = track_panels[r].new_data]_vars

=============================================================================
